---- MODULE Spec2Model ----
(***************************************************************************)
(* Model of scanner.py: the discovery pipeline (search_assets_by_creator   *)
(* with the transaction-parsing fallback), the per-mint enricher           *)
(* analyze_token with its four scoring functions, and the orchestrator     *)
(* scan_tokens (truncation, enrichment loop, sort, stats).                 *)
(*                                                                         *)
(* Numbers.  Python floats are modelled as exact rationals [n, d] in       *)
(* lowest terms with d > 0.  round(x, 2) yields an integer number of       *)
(* hundredths, so the stored fields score, age_hours, dev_holdings and     *)
(* avg_score hold hundredths (score 7500 is 75.00).  liquidity is a Python *)
(* int, which round(x, 2) returns unchanged, and is kept in whole units.   *)
(* Times are whole seconds.                                                *)
(*                                                                         *)
(* JSON values are tagged records: t = "null" | "empty" | "obj" | "other"  *)
(* for a blob ("empty" is {}, "other" a truthy non-dict), and              *)
(* t = "absent" | "str" | "num" | "int" | "bad" for leaf fields.           *)
(***************************************************************************)
EXTENDS Integers, Sequences, FiniteSets, TLC

VARIABLES
    pc,               \* position of scan_tokens / of the enricher probe
    primary,          \* what search_assets_by_creator returned (history)
    transactions,     \* what fetch_recent_transactions returned
    mints,            \* scan_tokens' local mints
    metadata_map,     \* scan_tokens' local metadata_map
    idx,              \* index of the next mint of the enrichment loop
    analyzed_tokens,  \* scan_tokens' local analyzed_tokens
    enriched,         \* history: the enrichment outcomes, in loop order
    calls,            \* history: number of calls of each function
    result,           \* the Scan Result returned, or NoResult
    probe,            \* enricher probe: the inputs of one analyze_token call
    probe_out         \* enricher probe: what analyze_token returned

vars == <<pc, primary, transactions, mints, metadata_map, idx, analyzed_tokens,
          enriched, calls, result, probe, probe_out>>

----------------------------------------------------------------------------
(* Exact rational arithmetic standing for Python's float arithmetic.       *)

Abs(x) == IF x < 0 THEN -x ELSE x

RECURSIVE GCD(_, _)
GCD(a, b) == IF b = 0 THEN a ELSE GCD(b, a % b)

Rat(n, d) ==
    LET s == IF d < 0 THEN -1 ELSE 1
        g == GCD(Abs(n), Abs(d))
    IN  [n |-> (s * n) \div g, d |-> (s * d) \div g]

RInt(i) == [n |-> i, d |-> 1]

RAdd(a, b) ==
    LET g == GCD(a.d, b.d)
    IN  Rat(a.n * (b.d \div g) + b.n * (a.d \div g), (a.d \div g) * b.d)

RNeg(a) == [n |-> -a.n, d |-> a.d]

RSub(a, b) == RAdd(a, RNeg(b))

RMul(a, b) ==
    LET g1 == GCD(Abs(a.n), b.d)
        g2 == GCD(Abs(b.n), a.d)
        h1 == IF g1 = 0 THEN 1 ELSE g1
        h2 == IF g2 = 0 THEN 1 ELSE g2
    IN  Rat((a.n \div h1) * (b.n \div h2), (a.d \div h2) * (b.d \div h1))

\* a / b for b # 0
RDiv(a, b) == RMul(a, Rat(b.d, b.n))

RLeq(a, b) == a.n * b.d <= b.n * a.d

RLt(a, b) == a.n * b.d < b.n * a.d

RMax(a, b) == IF RLeq(a, b) THEN b ELSE a

\* round(x, 2) as a number of hundredths: nearest, ties to even.  No input
\* of the enricher's domains below puts a score, an age or a percentage on a
\* tie, where a float's binary value would decide.
Round2(x) ==
    LET q    == x.n \div x.d          \* floor
        r    == x.n % x.d             \* 0 <= r < d
        h    == (r * 100) \div x.d
        rest == (r * 100) % x.d
        base == q * 100 + h
    IN  IF 2 * rest > x.d THEN base + 1
        ELSE IF 2 * rest < x.d THEN base
        ELSE IF base % 2 = 0 THEN base ELSE base + 1

\* x lies exactly halfway between two hundredths
IsTie(x) == 2 * (((x.n % x.d) * 100) % x.d) = x.d

\* round(x, 2) of a float whose exact value is only known to be near x: at a
\* tie the float lies just below or just above, and either neighbour results
Round2Choices(x) ==
    LET down == (x.n \div x.d) * 100 + ((x.n % x.d) * 100) \div x.d
    IN  IF IsTie(x) THEN {down, down + 1} ELSE {Round2(x)}

----------------------------------------------------------------------------
(* Configuration.                                                          *)

WEIGHTS ==
    [holders |-> Rat(35, 100), age |-> Rat(25, 100),
     dev_holdings |-> Rat(25, 100), liquidity |-> Rat(15, 100)]

THRESHOLDS ==
    [excellent_holders |-> 1000, good_holders |-> 500, min_holders |-> 100,
     sweet_spot_age_min |-> 24, sweet_spot_age_max |-> 72,
     dev_red_flag |-> 50, dev_warning |-> 30,
     great_liquidity |-> 50000, good_liquidity |-> 10000,
     min_liquidity |-> 1000]

----------------------------------------------------------------------------
(* The four scoring functions.  Arguments and results are rationals.       *)

calculate_holder_score(holder_count) ==
    LET T == THRESHOLDS
        h == holder_count
    IN  IF RLeq(RInt(T.excellent_holders), h) THEN RInt(100)
        ELSE IF RLeq(RInt(T.good_holders), h)
             THEN RAdd(RInt(70),
                       RMul(RDiv(RSub(h, RInt(T.good_holders)),
                                 RInt(T.excellent_holders - T.good_holders)),
                            RInt(30)))
        ELSE IF RLeq(RInt(T.min_holders), h)
             THEN RAdd(RInt(40),
                       RMul(RDiv(RSub(h, RInt(T.min_holders)),
                                 RInt(T.good_holders - T.min_holders)),
                            RInt(30)))
        ELSE RMul(RDiv(h, RInt(T.min_holders)), RInt(40))

calculate_age_score(age_hours) ==
    LET T == THRESHOLDS
    IN  IF RLeq(RInt(T.sweet_spot_age_min), age_hours)
           /\ RLeq(age_hours, RInt(T.sweet_spot_age_max))
        THEN RInt(100)
        ELSE IF RLt(age_hours, RInt(T.sweet_spot_age_min))
             THEN RMul(RDiv(age_hours, RInt(T.sweet_spot_age_min)), RInt(100))
        ELSE LET excess == RSub(age_hours, RInt(T.sweet_spot_age_max))
             IN  RMax(RInt(0),
                      RSub(RInt(100), RMul(RDiv(excess, RInt(24)), RInt(20))))

calculate_dev_holdings_score_wrong_divisor(dev_percentage) ==
    LET T == THRESHOLDS
        p == dev_percentage
    IN  IF RLeq(RInt(T.dev_red_flag), p) THEN RInt(0)
        ELSE IF RLeq(RInt(T.dev_warning), p)
             THEN RSub(RInt(50),
                       RMul(RDiv(RSub(p, RInt(T.dev_warning)),
                                 RInt(T.dev_red_flag - T.dev_warning)),
                            RInt(50)))
        ELSE RSub(RInt(100), RMul(RDiv(p, RInt(T.dev_red_flag)), RInt(50)))

calculate_dev_holdings_score(dev_percentage) ==
    LET T == THRESHOLDS
        p == dev_percentage
    IN  IF RLeq(RInt(T.dev_red_flag), p) THEN RInt(0)
        ELSE IF RLeq(RInt(T.dev_warning), p)
             THEN RSub(RInt(50),
                       RMul(RDiv(RSub(p, RInt(T.dev_warning)),
                                 RInt(T.dev_red_flag - T.dev_warning)),
                            RInt(50)))
        ELSE RSub(RInt(100), RMul(RDiv(p, RInt(T.dev_warning)), RInt(50)))

calculate_liquidity_score(liquidity) ==
    LET T == THRESHOLDS
        l == liquidity
    IN  IF RLeq(RInt(T.great_liquidity), l) THEN RInt(100)
        ELSE IF RLeq(RInt(T.good_liquidity), l)
             THEN RAdd(RInt(70),
                       RMul(RDiv(RSub(l, RInt(T.good_liquidity)),
                                 RInt(T.great_liquidity - T.good_liquidity)),
                            RInt(30)))
        ELSE IF RLeq(RInt(T.min_liquidity), l)
             THEN RAdd(RInt(40),
                       RMul(RDiv(RSub(l, RInt(T.min_liquidity)),
                                 RInt(T.good_liquidity - T.min_liquidity)),
                            RInt(30)))
        ELSE RMul(RDiv(l, RInt(T.min_liquidity)), RInt(40))

----------------------------------------------------------------------------
(* Strings are sequences of one-character strings.                         *)

Whitespace == {" ", "\t", "\n"}

RECURSIVE LStrip(_)
LStrip(s) ==
    IF s # <<>> /\ Head(s) \in Whitespace THEN LStrip(Tail(s)) ELSE s

RECURSIVE RStrip(_)
RStrip(s) ==
    IF s # <<>> /\ s[Len(s)] \in Whitespace
    THEN RStrip(SubSeq(s, 1, Len(s) - 1)) ELSE s

\* str.strip()
Strip(s) == RStrip(LStrip(s))

Unknown == <<"U", "n", "k", "n", "o", "w", "n">>

QQQ == <<"?", "?", "?">>

----------------------------------------------------------------------------
(* JSON values and Python's truthiness / isinstance tests on them.         *)

Null == [t |-> "null"]
EmptyDict == [t |-> "empty"]
Other == [t |-> "other"]
Absent == [t |-> "absent"]
Str(s) == [t |-> "str", s |-> s]
Num(v) == [t |-> "num", v |-> v]
IntLit(v) == [t |-> "int", v |-> v]
Bad == [t |-> "bad"]

\* bool(x) for a blob
Truthy(x) == x.t \in {"obj", "other"}

\* isinstance(x, dict)
IsDict(x) == x.t \in {"obj", "empty"}

\* the idiom "v = d.get(k); if not v or not isinstance(v, dict): v = {}"
DictOrEmpty(x) == IF Truthy(x) /\ IsDict(x) THEN x ELSE EmptyDict

\* d.get(k) of a blob that may be {}: the field when present, else None
GetOnChain(m) == IF m.t = "obj" THEN m.onChainMetadata ELSE Null
GetMetadata(oc) == IF oc.t = "obj" THEN oc.metadata ELSE Null
GetData(md) == IF md.t = "obj" THEN md.data ELSE Null
GetName(ti) == IF ti.t = "obj" THEN ti.name ELSE Absent
GetSymbol(ti) == IF ti.t = "obj" THEN ti.symbol ELSE Absent
GetUpdatedAt(oc) == IF oc.t = "obj" THEN oc.updatedAt ELSE Absent

\* "str(d.get(k, dflt)).strip() if d.get(k) else dflt" for a string field
StrippedOr(f, dflt) == IF f.t = "str" /\ f.s # <<>> THEN Strip(f.s) ELSE dflt

\* int(d.get("amount", dflt)): the value, or a ValueError / TypeError
PyInt(f, dflt) ==
    IF f.t = "absent" THEN [ok |-> TRUE, v |-> dflt]
    ELSE IF f.t = "int" THEN [ok |-> TRUE, v |-> f.v]
    ELSE [ok |-> FALSE, v |-> 0]

----------------------------------------------------------------------------
(* The two per-mint RPC wrappers.  resp is what the transport produced:    *)
(* t = "fail" (any exception inside the try), "noresult" (no or falsy      *)
(* "result") or "ok" with the "value" of the result.                       *)

Raised == [t |-> "raise"]

get_token_supply_unguarded(resp) ==
    IF resp.t = "fail" THEN Raised
    ELSE IF resp.t = "noresult" THEN EmptyDict
    ELSE resp.value

get_token_supply(resp) ==
    IF resp.t = "fail" THEN EmptyDict
    ELSE IF resp.t = "noresult" THEN EmptyDict
    ELSE resp.value

NoEntry == [t |-> "none"]

EmptyList == [t |-> "list", n |-> 0, first |-> NoEntry]

\* a list is abstracted to its length n and its first entry
get_token_largest_accounts(resp) ==
    IF resp.t = "fail" THEN EmptyList
    ELSE IF resp.t = "noresult" THEN EmptyList
    ELSE resp.value

----------------------------------------------------------------------------
(* analyze_token.  Its result is None, a raised exception, or the Token    *)
(* Record; beside the record the result keeps the locals the record is     *)
(* built from (the unrounded total_score and the four component scores).   *)

None == [kind |-> "none"]

Raise == [kind |-> "raise"]

\* "if name == 'Unknown' or not symbol or symbol == '???'"
IsPlaceholder_conjunction(name, symbol) ==
    name = Unknown /\ (symbol = <<>> \/ symbol = QQQ)

IsPlaceholder(name, symbol) ==
    name = Unknown \/ symbol = <<>> \/ symbol = QQQ

\* the if / elif / else on total_score
RiskLevel(total_score) ==
    IF RLeq(RInt(75), total_score) THEN "low"
    ELSE IF RLeq(RInt(50), total_score) THEN "medium"
    ELSE "high"

Flag(type, text) == [type |-> type, text |-> text]

\* the flags, in evaluation order; text is the message without its numbers
GenerateFlags(holder_count, age_hours, dev_holdings, liquidity) ==
    LET T == THRESHOLDS
        f1 == IF holder_count >= T.excellent_holders
              THEN <<Flag("opportunity", "Excellent holder base")>>
              ELSE IF holder_count >= T.good_holders
              THEN <<Flag("opportunity", "Strong holder base")>>
              ELSE IF holder_count < T.min_holders
              THEN <<Flag("high-risk", "Low holder count")>>
              ELSE <<>>
        f2 == IF RLeq(RInt(T.sweet_spot_age_min), age_hours)
                 /\ RLeq(age_hours, RInt(T.sweet_spot_age_max))
              THEN <<Flag("opportunity", "In sweet spot age range")>>
              ELSE IF RLt(age_hours, RInt(12))
              THEN <<Flag("medium-risk", "Very new token")>>
              ELSE IF RLt(RInt(168), age_hours)
              THEN <<Flag("medium-risk", "Older token")>>
              ELSE <<>>
        f3 == IF RLeq(RInt(T.dev_red_flag), dev_holdings)
              THEN <<Flag("high-risk", "High dev holdings")>>
              ELSE IF RLeq(RInt(T.dev_warning), dev_holdings)
              THEN <<Flag("medium-risk", "Moderate dev holdings")>>
              ELSE <<Flag("low-risk", "Low dev holdings")>>
        f4 == IF liquidity >= T.great_liquidity
              THEN <<Flag("opportunity", "Great liquidity")>>
              ELSE IF liquidity < T.min_liquidity
              THEN <<Flag("high-risk", "Low liquidity")>>
              ELSE <<>>
    IN  f1 \o f2 \o f3 \o f4

\* the part of analyze_token after both fetches and the int() conversions
Assemble(mint, name, symbol, on_chain, total_supply, largest_accounts, largest_amount, now) ==
    LET holder_count == largest_accounts.n
        dev_holdings ==
            IF largest_accounts.n > 0 /\ total_supply > 0
            THEN RMul(Rat(largest_amount, total_supply), RInt(100))
            ELSE RInt(0)
        update_timestamp == GetUpdatedAt(on_chain)
        age_hours ==
            IF update_timestamp.t = "num"
            THEN Rat(now - update_timestamp.v, 3600)
            ELSE RInt(48)
        liquidity == holder_count * 150
        holder_score == calculate_holder_score(RInt(holder_count))
        age_score == calculate_age_score(age_hours)
        dev_score == calculate_dev_holdings_score(dev_holdings)
        liquidity_score == calculate_liquidity_score(RInt(liquidity))
        total_score ==
            RAdd(RAdd(RMul(holder_score, WEIGHTS.holders),
                      RMul(age_score, WEIGHTS.age)),
                 RAdd(RMul(dev_score, WEIGHTS.dev_holdings),
                      RMul(liquidity_score, WEIGHTS.liquidity)))
    IN  [kind |-> "record",
         rec |-> [address |-> mint,
                  name |-> name,
                  symbol |-> symbol,
                  score |-> Round2(total_score),
                  risk_level |-> RiskLevel(total_score),
                  holders |-> holder_count,
                  age_hours |-> Round2(age_hours),
                  dev_holdings |-> Round2(dev_holdings),
                  liquidity |-> liquidity,
                  flags |-> GenerateFlags(holder_count, age_hours,
                                          dev_holdings, liquidity)],
         total_score |-> total_score,
         holder_score |-> holder_score,
         age_score |-> age_score,
         dev_score |-> dev_score,
         liquidity_score |-> liquidity_score]

\* the supply fetch and the two int() conversions that follow it:
\* total_supply, or not ok when an exception leaves analyze_token there
TotalSupply(supply_resp) ==
    LET supply_info == get_token_supply(supply_resp)
    IN  IF supply_info.t = "raise" THEN [ok |-> FALSE, v |-> 0]
        ELSE
        LET has_supply == supply_info.t = "obj"
            amount == IF has_supply THEN PyInt(supply_info.amount, 0)
                      ELSE [ok |-> TRUE, v |-> 0]
            decimals == IF has_supply THEN PyInt(supply_info.decimals, 9)
                        ELSE [ok |-> TRUE, v |-> 9]
        IN  [ok |-> amount.ok /\ decimals.ok, v |-> amount.v]

\* the two fetches and the unguarded conversions after each
Enrich(mint, name, symbol, on_chain, supply_resp, accounts_resp, now) ==
    LET supply == TotalSupply(supply_resp)
    IN  IF ~supply.ok THEN Raise
        ELSE
        LET total_supply == supply.v
            largest_accounts == get_token_largest_accounts(accounts_resp)
        IN  IF largest_accounts.n > 0 /\ total_supply > 0
            THEN LET first == largest_accounts.first
                     la == IF first.t = "obj" THEN PyInt(first.amount, 0)
                           ELSE [ok |-> FALSE, v |-> 0]
                 IN  IF ~la.ok THEN Raise
                     ELSE Assemble(mint, name, symbol, on_chain,
                                   total_supply, largest_accounts,
                                   la.v, now)
            ELSE Assemble(mint, name, symbol, on_chain, total_supply,
                          largest_accounts, 0, now)

analyze_token(mint, metadata, supply_resp, accounts_resp, now) ==
    IF ~Truthy(metadata) \/ ~IsDict(metadata) THEN None
    ELSE
    LET on_chain == DictOrEmpty(GetOnChain(metadata))
        metadata_obj == DictOrEmpty(GetMetadata(on_chain))
        token_info == DictOrEmpty(GetData(metadata_obj))
        name == StrippedOr(GetName(token_info), Unknown)
        symbol == StrippedOr(GetSymbol(token_info), QQQ)
    IN  IF IsPlaceholder(name, symbol) THEN None
        ELSE Enrich(mint, name, symbol, on_chain, supply_resp,
                    accounts_resp, now)

----------------------------------------------------------------------------
(* Bounds and input domains.                                               *)

\* the reading of time.time(), in seconds
Now == 1000000

Hour == 3600

\* a metadata blob whose nested path onChainMetadata.metadata.data exists
Blob(name, symbol, updatedAt) ==
    [t |-> "obj",
     onChainMetadata |->
        [t |-> "obj",
         metadata |-> [t |-> "obj",
                       data |-> [t |-> "obj", name |-> name,
                                 symbol |-> symbol]],
         updatedAt |-> updatedAt]]

NameA == <<"A">>
NameB == <<"B">>
SymS == <<"S">>

\* blobs with a broken path: no onChainMetadata, no metadata, no data
BrokenBlobs ==
    { [t |-> "obj", onChainMetadata |-> Null],
      [t |-> "obj", onChainMetadata |-> Other],
      [t |-> "obj",
       onChainMetadata |-> [t |-> "obj", metadata |-> Null,
                            updatedAt |-> Num(Now - 48 * Hour)]],
      [t |-> "obj",
       onChainMetadata |-> [t |-> "obj",
                            metadata |-> [t |-> "obj", data |-> Null],
                            updatedAt |-> Absent]] }

NameFields ==
    { Absent, Str(<<>>), Str(Unknown), Str(<<" ">> \o Unknown \o <<" ">>),
      Str(<<" ">>), Str(NameA), Str(<<" ">> \o NameB \o <<"\n">>) }

SymbolFields ==
    { Absent, Str(<<>>), Str(QQQ), Str(<<"\t">> \o QQQ), Str(<<" ", " ">>),
      Str(SymS) }

\* updatedAt: missing, not a number, or a timestamp (past, now, future)
UpdatedAts ==
    { Absent, Other, Num(Now), Num(Now - 48 * Hour), Num(Now - 24 * Hour),
      Num(Now - 72 * Hour), Num(Now - 96 * Hour), Num(Now - 192 * Hour),
      Num(Now - 400 * Hour), Num(Now - (24 * Hour - 10)),
      Num(Now + 48 * Hour) }

ProbeMetadata ==
    {Null, EmptyDict, Other} \cup BrokenBlobs
    \cup { Blob(n, y, Absent) : n \in NameFields, y \in SymbolFields }
    \cup { Blob(Str(NameA), Str(SymS), u) : u \in UpdatedAts }

SupplyObj(amount, decimals) ==
    [t |-> "obj", amount |-> amount, decimals |-> decimals]

SupplyOk(v) == [t |-> "ok", value |-> v]

Fail == [t |-> "fail"]

NoResult == [t |-> "noresult"]

ProbeSupply ==
    { Fail, NoResult, SupplyOk(Null), SupplyOk(EmptyDict), SupplyOk(Other),
      SupplyOk(SupplyObj(Bad, IntLit(9))),
      SupplyOk(SupplyObj(IntLit(1000), Bad)) }
    \cup { SupplyOk(SupplyObj(a, IntLit(9))) :
             a \in {Absent, IntLit(0), IntLit(1000)} }

Entry(amount) == [t |-> "obj", amount |-> amount]

Accounts(n, first) ==
    [t |-> "ok", value |-> [t |-> "list", n |-> n, first |-> first]]

HolderCounts == {1, 20, 99, 100, 300, 500, 750, 1000, 1200}

FirstEntries ==
    { Other, Entry(Absent), Entry(Bad), Entry(IntLit(10)),
      Entry(IntLit(300)), Entry(IntLit(400)), Entry(IntLit(500)),
      Entry(IntLit(2000)) }

ProbeAccounts ==
    { Fail, NoResult, [t |-> "ok", value |-> EmptyList] }
    \cup { Accounts(n, e) : n \in HolderCounts, e \in FirstEntries }

ProbeInputs ==
    [mint : {1}, metadata : ProbeMetadata, supply : ProbeSupply,
     accounts : ProbeAccounts, now : {Now}]

NoProbe ==
    [mint |-> 0, metadata |-> Null, supply |-> Fail, accounts |-> Fail,
     now |-> 0]

----------------------------------------------------------------------------
(* The discovery pipeline and the orchestrator's helpers.  A mint address  *)
(* is a number 1..NMints; 0 stands for a missing "id" / "mint" field.      *)

\* scan_tokens' max_tokens
MaxTokens == 2

NMints == MaxTokens + 1

Take(s, k) == SubSeq(s, 1, IF Len(s) < k THEN Len(s) ELSE k)

Ids(k) == [i \in 1..k |-> i]

IsTruthyId(i) == i # 0

\* resp.items are the "id" fields of the items returned
search_assets_by_creator(resp) ==
    IF resp.t = "fail" THEN <<>>
    ELSE SelectSeq(resp.items, IsTruthyId)

fetch_recent_transactions(resp) ==
    IF resp.t = "fail" THEN <<>> ELSE resp.data

Range(s) == { s[i] : i \in DOMAIN s }

\* the set built by extract_token_mints
ExtractedSet(txs) ==
    UNION { (Range(txs[i].tokenTransfers) \cup Range(txs[i].nativeTransfers)
             \cup Range(txs[i].accountData)) \ {0} : i \in DOMAIN txs }

\* list(mints): the set in any order
Orders(S) ==
    { q \in [1..Cardinality(S) -> S] : Range(q) = S }

fetch_token_metadata_batch(ms, resp) ==
    IF ms = <<>> THEN <<>>
    ELSE IF resp.t = "fail" THEN <<>>
    ELSE resp.data

\* metadata_map.get(mint, {})
MapGet(map, mint) == IF mint \in DOMAIN map THEN map[mint] ELSE EmptyDict

\* "if not mints": the fallback is taken
NeedFallback_always(ms) == TRUE

NeedFallback(ms) == ms = <<>>

\* list.sort(key=score, reverse=True): stable, descending
RECURSIVE InsertDesc_unstable(_, _)
InsertDesc_unstable(sorted, x) ==
    IF sorted = <<>> THEN <<x>>
    ELSE IF Head(sorted).score > x.score
         THEN <<Head(sorted)>> \o InsertDesc_unstable(Tail(sorted), x)
    ELSE <<x>> \o sorted

RECURSIVE InsertDesc(_, _)
InsertDesc(sorted, x) ==
    IF sorted = <<>> THEN <<x>>
    ELSE IF Head(sorted).score >= x.score
         THEN <<Head(sorted)>> \o InsertDesc(Tail(sorted), x)
    ELSE <<x>> \o sorted

RECURSIVE SortByScore(_)
SortByScore(s) ==
    IF s = <<>> THEN <<>>
    ELSE InsertDesc(SortByScore(SubSeq(s, 1, Len(s) - 1)), s[Len(s)])

RECURSIVE SumScore(_)
SumScore(s) == IF s = <<>> THEN 0 ELSE Head(s).score + SumScore(Tail(s))

RECURSIVE SumLiquidity(_)
SumLiquidity(s) ==
    IF s = <<>> THEN 0 ELSE Head(s).liquidity + SumLiquidity(Tail(s))

IsOpportunity_medium_threshold(t) == t.score >= 5000

\* t["score"] >= 70
IsOpportunity(t) == t.score >= 7000

\* round(avg_score, 2): the scores are hundredths, and so is the result
AvgScoreChoices(tokens) ==
    IF Len(tokens) > 0
    THEN Round2Choices(Rat(SumScore(tokens), 100 * Len(tokens)))
    ELSE {0}

\* the stats of scan_tokens, given the rounded average
Stats(tokens, avg_score) ==
    [total_scanned |-> Len(tokens),
     opportunities |-> Len(SelectSeq(tokens, IsOpportunity)),
     avg_score |-> avg_score,
     total_liquidity |-> SumLiquidity(tokens)]

create_empty_result_unset_average ==
    [stats |-> [total_scanned |-> 0, opportunities |-> 0, avg_score |-> -1,
                total_liquidity |-> 0],
     tokens |-> <<>>]

create_empty_result ==
    [stats |-> [total_scanned |-> 0, opportunities |-> 0, avg_score |-> 0,
                total_liquidity |-> 0],
     tokens |-> <<>>]

\* no Scan Result has been returned
Pending == [stats |-> [total_scanned |-> -1, opportunities |-> -1,
                       avg_score |-> -1, total_liquidity |-> -1],
            tokens |-> <<>>]

----------------------------------------------------------------------------
(* What the five external capabilities may answer during a scan.           *)

Items(ids) == [t |-> "ok", items |-> ids]

PrimaryResponses ==
    {Fail, Items(<<0>>), Items(<<0, 2, 1>>)}
    \cup { Items(Ids(k)) : k \in 0..NMints }

Tx(tokenTransfers, nativeTransfers, accountData) ==
    [tokenTransfers |-> tokenTransfers, nativeTransfers |-> nativeTransfers,
     accountData |-> accountData]

TxList(txs) == [t |-> "ok", data |-> txs]

TxResponses ==
    { Fail, TxList(<<>>),
      TxList(<<Tx(<<>>, <<>>, <<>>)>>),
      TxList(<<Tx(<<0>>, <<>>, <<0>>)>>),
      TxList(<<Tx(<<1>>, <<>>, <<0>>)>>),
      TxList(<<Tx(<<1>>, <<>>, <<>>), Tx(<<>>, <<2>>, <<1>>)>>),
      TxList(<<Tx(<<1, 2>>, <<2>>, <<NMints>>)>>) }

PipelineBlobs ==
    { Blob(Str(NameA), Str(SymS), Absent),
      Blob(Str(NameB), Str(SymS), Num(Now - 96 * Hour)),
      Blob(Str(Unknown), Str(SymS), Absent) }

MetadataResponses(ms) ==
    {Fail}
    \cup { [t |-> "ok", data |-> f] :
             f \in UNION { [D -> PipelineBlobs] : D \in SUBSET Range(ms) } }

PipelineSupply ==
    { Fail, SupplyOk(SupplyObj(IntLit(1000), IntLit(9))),
      SupplyOk(SupplyObj(Bad, IntLit(9))) }

PipelineAccounts ==
    { Fail, Accounts(1200, Entry(IntLit(10))),
      Accounts(50, Entry(IntLit(600))), Accounts(50, Other) }

NotCalled == [t |-> "notcalled"]

----------------------------------------------------------------------------
(* scan_tokens, one action per external call it makes.                     *)

NoCalls ==
    [search |-> 0, fetch |-> 0, extract |-> 0, metadata |-> 0,
     analyze |-> 0, sleep |-> 0]

Bump(c, f) == [c EXCEPT ![f] = @ + 1]

Init ==
    /\ pc = "start"
    /\ primary = <<>>
    /\ transactions = <<>>
    /\ mints = <<>>
    /\ metadata_map = <<>>
    /\ idx = 0
    /\ analyzed_tokens = <<>>
    /\ enriched = <<>>
    /\ calls = NoCalls
    /\ result = Pending
    /\ probe = NoProbe
    /\ probe_out = None

\* mints = search_assets_by_creator(...); if not mints: ...
SearchAssets ==
    /\ pc = "start"
    /\ \E resp \in PrimaryResponses :
         LET found == search_assets_by_creator(resp)
         IN  /\ primary' = found
             /\ mints' = found
             /\ pc' = IF NeedFallback(found) THEN "fallback" ELSE "limit"
    /\ calls' = Bump(calls, "search")
    /\ UNCHANGED <<transactions, metadata_map, idx, analyzed_tokens, enriched,
                   result, probe, probe_out>>

\* transactions = fetch_recent_transactions(...); if not transactions: return
FetchTransactions ==
    /\ pc = "fallback"
    /\ \E resp \in TxResponses :
         LET txs == fetch_recent_transactions(resp)
         IN  /\ transactions' = txs
             /\ IF txs = <<>>
                THEN /\ pc' = "done"
                     /\ result' = create_empty_result
                ELSE /\ pc' = "extract"
                     /\ UNCHANGED result
    /\ calls' = Bump(calls, "fetch")
    /\ UNCHANGED <<primary, mints, metadata_map, idx, analyzed_tokens,
                   enriched, probe, probe_out>>

\* mints = extract_token_mints(transactions); if not mints: return
ExtractMints ==
    /\ pc = "extract"
    /\ \E order \in Orders(ExtractedSet(transactions)) :
         /\ mints' = order
         /\ IF order = <<>>
            THEN /\ pc' = "done"
                 /\ result' = create_empty_result
            ELSE /\ pc' = "limit"
                 /\ UNCHANGED result
    /\ calls' = Bump(calls, "extract")
    /\ UNCHANGED <<primary, transactions, metadata_map, idx, analyzed_tokens,
                   enriched, probe, probe_out>>

\* mints = mints[:max_tokens]; metadata_map = fetch_token_metadata_batch(mints)
LimitAndFetchMetadata ==
    /\ pc = "limit"
    /\ LET limited == Take(mints, MaxTokens)
       IN  /\ mints' = limited
           /\ \E resp \in MetadataResponses(limited) :
                metadata_map' = fetch_token_metadata_batch(limited, resp)
    /\ idx' = 1
    /\ pc' = "analyze"
    /\ calls' = Bump(calls, "metadata")
    /\ UNCHANGED <<primary, transactions, analyzed_tokens, enriched, result,
                   probe, probe_out>>

\* whether analyze_token gets past the metadata checks, to its fetches
ReachesFetches(mint, metadata) ==
    analyze_token(mint, metadata, NoResult, NoResult, Now).kind # "none"

\* one iteration of "for mint in mints"; an exception leaves scan_tokens
AnalyzeNext ==
    /\ pc = "analyze"
    /\ idx <= Len(mints)
    /\ LET mint == mints[idx]
           metadata == MapGet(metadata_map, mint)
       IN  \E supply \in PipelineSupply \cup {NotCalled},
              accounts \in PipelineAccounts \cup {NotCalled} :
             /\ (supply = NotCalled) = ~ReachesFetches(mint, metadata)
             /\ (accounts = NotCalled) =
                  (supply = NotCalled \/ ~TotalSupply(supply).ok)
             /\ LET token_data ==
                      IF supply = NotCalled THEN None
                      ELSE IF accounts = NotCalled THEN Raise
                      ELSE analyze_token(mint, metadata, supply, accounts, Now)
                IN  /\ enriched' = Append(enriched,
                                          [mint |-> mint, metadata |-> metadata,
                                           supply |-> supply,
                                           accounts |-> accounts,
                                           out |-> token_data])
                    /\ IF token_data.kind = "raise"
                       THEN /\ pc' = "raised"
                            /\ calls' = Bump(calls, "analyze")
                            /\ UNCHANGED <<idx, analyzed_tokens>>
                       ELSE /\ pc' = "analyze"
                            /\ calls' = Bump(Bump(calls, "analyze"), "sleep")
                            /\ idx' = idx + 1
                            /\ analyzed_tokens' =
                                 IF token_data.kind = "record"
                                 THEN Append(analyzed_tokens, token_data.rec)
                                 ELSE analyzed_tokens
    /\ UNCHANGED <<primary, transactions, mints, metadata_map, result, probe,
                   probe_out>>

\* analyzed_tokens.sort(...); the stats; return
Finish ==
    /\ pc = "analyze"
    /\ idx > Len(mints)
    /\ LET sorted == SortByScore(analyzed_tokens)
       IN  /\ analyzed_tokens' = sorted
           /\ \E avg_score \in AvgScoreChoices(sorted) :
                result' = [stats |-> Stats(sorted, avg_score),
                           tokens |-> sorted]
    /\ pc' = "done"
    /\ UNCHANGED <<primary, transactions, mints, metadata_map, idx, enriched,
                   calls, probe, probe_out>>

Next ==
    \/ SearchAssets
    \/ FetchTransactions
    \/ ExtractMints
    \/ LimitAndFetchMetadata
    \/ AnalyzeNext
    \/ Finish

Spec == Init /\ [][Next]_vars

----------------------------------------------------------------------------
(* The enricher alone: one analyze_token call on inputs drawn at Init.     *)

InitEnrich ==
    /\ pc = "probe"
    /\ probe \in ProbeInputs
    /\ probe_out = None
    /\ primary = <<>>
    /\ transactions = <<>>
    /\ mints = <<>>
    /\ metadata_map = <<>>
    /\ idx = 0
    /\ analyzed_tokens = <<>>
    /\ enriched = <<>>
    /\ calls = NoCalls
    /\ result = Pending

ProbeAnalyze ==
    /\ pc = "probe"
    /\ probe_out' = analyze_token(probe.mint, probe.metadata, probe.supply,
                                  probe.accounts, probe.now)
    /\ pc' = "probed"
    /\ UNCHANGED <<primary, transactions, mints, metadata_map, idx,
                   analyzed_tokens, enriched, calls, result, probe>>

NextEnrich == ProbeAnalyze

SpecEnrich == InitEnrich /\ [][NextEnrich]_vars

----------------------------------------------------------------------------
(* Properties of the enricher (checked under SpecEnrich).                  *)

Probed == pc = "probed"

InUnit(x) == RLeq(RInt(0), x) /\ RLeq(x, RInt(100))

\* C2: every Token Record has score in [0, 100] and is built from four
\* sub-scores in [0, 100], whatever the holder count, the supply, the
\* largest amount and the numeric updatedAt (a future one included).
C2_ScoresInRange ==
    (Probed /\ probe_out.kind = "record") =>
        /\ probe_out.rec.score >= 0
        /\ probe_out.rec.score <= 10000
        /\ InUnit(probe_out.holder_score)
        /\ InUnit(probe_out.age_score)
        /\ InUnit(probe_out.dev_score)
        /\ InUnit(probe_out.liquidity_score)

\* the risk_level the thresholds assign to a stored score (hundredths)
RiskOfStored(score) ==
    IF score >= 7500 THEN "low"
    ELSE IF score >= 5000 THEN "medium"
    ELSE "high"

\* C3: in every Token Record the stored risk_level is the one the
\* thresholds 75 and 50 assign to the stored (2-decimal) score.
C3_RiskIsFunctionOfStoredScore ==
    (Probed /\ probe_out.kind = "record") =>
        probe_out.rec.risk_level = RiskOfStored(probe_out.rec.score)

\* the nested path onChainMetadata.metadata.data of a metadata blob exists
HasDataPath(m) ==
    /\ m.t = "obj"
    /\ m.onChainMetadata.t = "obj"
    /\ m.onChainMetadata.metadata.t = "obj"
    /\ m.onChainMetadata.metadata.data.t = "obj"

FieldText(f, dflt) == IF f.t = "str" /\ f.s # <<>> THEN Strip(f.s) ELSE dflt

ResolvedName(m) ==
    IF HasDataPath(m)
    THEN FieldText(m.onChainMetadata.metadata.data.name, Unknown)
    ELSE Unknown

ResolvedSymbol(m) ==
    IF HasDataPath(m)
    THEN FieldText(m.onChainMetadata.metadata.data.symbol, QQQ)
    ELSE QQQ

\* C9: analyze_token returns no record when the metadata is absent or not
\* an object, when the path onChainMetadata.metadata.data is missing, or
\* when the resolved name is "Unknown" or the resolved symbol is "???" or
\* empty, whatever the supply and the accounts are; and no record returned
\* has the name "Unknown" or the symbol "???".
C9_FailsClosed ==
    Probed =>
        /\ ( \/ probe.metadata.t # "obj"
             \/ ~HasDataPath(probe.metadata)
             \/ ResolvedName(probe.metadata) = Unknown
             \/ ResolvedSymbol(probe.metadata) \in {QQQ, <<>>} )
           => probe_out = None
        /\ probe_out.kind = "record"
           => /\ probe_out.rec.name # Unknown
              /\ probe_out.rec.symbol # QQQ

\* a placeholder name padded with blanks, with every metric at its best
C9_Witness ==
    /\ Probed
    /\ probe.metadata =
         Blob(Str(<<" ">> \o Unknown \o <<" ">>), Str(SymS), Absent)
    /\ probe.supply = SupplyOk(SupplyObj(IntLit(1000), IntLit(9)))
    /\ probe.accounts = Accounts(1200, Entry(IntLit(10)))
    /\ probe_out = None

\* scenario 1: 1200 accounts, largest 10 of supply 1000, updated 48 h ago
Scenario1 ==
    /\ Probed
    /\ probe.metadata = Blob(Str(NameA), Str(SymS), Num(probe.now - 48 * Hour))
    /\ probe.supply = SupplyOk(SupplyObj(IntLit(1000), IntLit(9)))
    /\ probe.accounts = Accounts(1200, Entry(IntLit(10)))

Scenario1Parts ==
    /\ probe_out.kind = "record"
    /\ probe_out.holder_score = RInt(100)
    /\ probe_out.age_score = RInt(100)
    /\ Round2(probe_out.dev_score) = 9833
    /\ probe_out.rec.dev_holdings = 100
    /\ probe_out.rec.liquidity = 180000
    /\ probe_out.liquidity_score = RInt(100)
    /\ probe_out.rec.risk_level = "low"

\* C10 as stated: in scenario 1 the sub-scores are 100, 100, about 98.3
\* and 100, the liquidity is 180000, the risk level is "low", and the
\* aggregate score is 99.1 to one decimal place.
C10_Scenario1_AsStated ==
    Scenario1 =>
        /\ Scenario1Parts
        /\ probe_out.rec.score >= 9905
        /\ probe_out.rec.score <= 9914

\* C10 amended: in scenario 1 the sub-scores are 100, 100, about 98.3 and
\* 100, the liquidity is 180000, the risk level is "low", and the
\* aggregate score is 99.58.
C10_Scenario1 ==
    Scenario1 =>
        /\ Scenario1Parts
        /\ probe_out.rec.score = 9958

C10_Witness == Scenario1 /\ probe_out.kind = "record"

----------------------------------------------------------------------------
(* Properties of a scan (checked under Spec).                              *)

Done == pc = "done"

\* the mints handed to analyze_token so far, in order
EnrichedMints == [i \in DOMAIN enriched |-> enriched[i].mint]

IsRecordEntry(e) == e.out.kind = "record"

\* the records analyze_token returned so far, in enrichment order
EnrichedRecords ==
    LET kept == SelectSeq(enriched, IsRecordEntry)
    IN  [i \in DOMAIN kept |-> kept[i].out.rec]

\* C1: when the primary strategy returned a non-empty list the fallback
\* (fetch_recent_transactions, extract_token_mints) is never called and the
\* mints enriched are the first max_tokens of the primary list; the
\* fallback is entered only after the primary returned nothing, at most
\* once.
C1_FallbackOnlyAfterEmptyPrimary ==
    /\ [](primary # <<>> => (calls.fetch = 0 /\ calls.extract = 0))
    /\ [](calls.fetch <= 1 /\ calls.extract <= 1)
    /\ []((Done /\ primary # <<>>)
            => EnrichedMints = Take(primary, MaxTokens))
    /\ [][(calls'.fetch # calls.fetch \/ calls'.extract # calls.extract)
            => (calls.search = 1 /\ primary = <<>>
                /\ pc \in {"fallback", "extract"})]_vars

\* a primary list longer than max_tokens, enriched to the end
C1_Witness ==
    /\ Done
    /\ Len(primary) > MaxTokens
    /\ Len(enriched) = MaxTokens
    /\ calls.fetch = 0

\* the defaults of a record whose largest-accounts fetch gave nothing
DefaultsOf(rec) ==
    /\ rec.holders = 0
    /\ rec.dev_holdings = 0
    /\ rec.liquidity = 0

\* C4: for a mint with valid metadata a failed supply fetch and/or a failed
\* largest-accounts fetch still yields exactly one Token Record, built from
\* the defaults of what failed (total_supply 0, hence dev_holdings 0;
\* holders 0, dev_holdings 0 and liquidity 0), and it leaves the records of
\* the other mints of the scan as they were.
C4_FetchFailureKeepsTheToken ==
    /\ [](\A i \in DOMAIN enriched :
            LET e == enriched[i]
            IN  (e.supply = Fail \/ e.accounts = Fail) =>
                  /\ e.out.kind = "record"
                  /\ e.out.rec.address = e.mint
                  /\ e.out.rec.dev_holdings = 0
                  /\ e.accounts = Fail => DefaultsOf(e.out.rec)
                  /\ e.accounts # Fail
                       => e.out.rec.holders = e.accounts.value.n)
    /\ [](pc \in {"analyze", "raised"} => analyzed_tokens = EnrichedRecords)
    /\ [][(pc = "analyze" /\ pc' = "analyze"
           /\ (enriched'[Len(enriched')].supply = Fail
               \/ enriched'[Len(enriched')].accounts = Fail))
            => analyzed_tokens' =
                 Append(analyzed_tokens, enriched'[Len(enriched')].out.rec)]_vars

\* both fetches failed for the first mint, and the second has its record
C4_Witness ==
    /\ Done
    /\ Len(enriched) = 2
    /\ enriched[1].supply = Fail
    /\ enriched[1].accounts = Fail
    /\ enriched[2].supply # Fail
    /\ enriched[2].accounts = Accounts(1200, Entry(IntLit(10)))
    /\ Len(result.tokens) = 2

\* C5: no error raised while enriching a mint leaves analyze_token, and
\* scan_tokens always ends by returning a Scan Result.
C5_NoFatalErrorPath ==
    /\ pc # "raised"
    /\ \A i \in DOMAIN enriched : enriched[i].out.kind # "raise"

\* C6: the tokens returned are sorted by score, highest first; records of
\* equal score keep their enrichment order; sorting them again changes
\* nothing.
C6_SortedStable ==
    (Done /\ calls.metadata = 1) =>
        /\ \A i \in 1..(Len(result.tokens) - 1) :
             result.tokens[i].score >= result.tokens[i + 1].score
        /\ Len(result.tokens) = Len(EnrichedRecords)
        /\ \A k \in DOMAIN EnrichedRecords :
             LET sc == EnrichedRecords[k].score
                 SameScore(t) == t.score = sc
             IN  SelectSeq(result.tokens, SameScore)
                   = SelectSeq(EnrichedRecords, SameScore)
        /\ SortByScore(result.tokens) = result.tokens

\* two records of different mints tie, and keep their enrichment order
C6_Witness ==
    /\ Done
    /\ Len(result.tokens) = 2
    /\ result.tokens[1].score = result.tokens[2].score
    /\ result.tokens[1].address # result.tokens[2].address
    /\ result.tokens[1] = EnrichedRecords[1]

CountOpportunities(tokens) ==
    Cardinality({ i \in DOMAIN tokens : tokens[i].score >= 7000 })

StatsCounts ==
    LET st == result.stats
        n == Len(result.tokens)
    IN  /\ st.total_scanned = n
        /\ n = Len(EnrichedRecords)
        /\ st.opportunities = CountOpportunities(result.tokens)
        /\ n = 0 => st.avg_score = 0
        /\ st.total_liquidity = SumLiquidity(result.tokens)
        /\ st.opportunities <= st.total_scanned
        /\ st.total_scanned <= MaxTokens

\* C7 as stated: the stats agree with the tokens, and avg_score is the
\* arithmetic mean of the records' scores.
C7_StatsConsistent_AsStated ==
    Done =>
        /\ StatsCounts
        /\ result.stats.avg_score * Len(result.tokens)
             = SumScore(result.tokens)

\* C7 amended: the stats agree with the tokens, and avg_score is the
\* arithmetic mean of the records' scores rounded to two decimals (it is
\* within 0.005 of the mean).
C7_StatsConsistent ==
    Done =>
        /\ StatsCounts
        /\ 2 * Abs(result.stats.avg_score * Len(result.tokens)
                   - SumScore(result.tokens)) <= Len(result.tokens)

\* two records, one an opportunity, whose mean has a third decimal
C7_Witness ==
    /\ Done
    /\ result.stats.total_scanned = 2
    /\ result.stats.opportunities = 1
    /\ SumScore(result.tokens) % 2 = 1

ZeroedResult ==
    /\ result.tokens = <<>>
    /\ result.stats.total_scanned = 0
    /\ result.stats.opportunities = 0
    /\ result.stats.avg_score = 0
    /\ result.stats.total_liquidity = 0

\* the scan ended with both discovery strategies empty
DiscoveryEmpty == Done /\ calls.metadata = 0

\* the scan ended after the batch metadata fetch gave an empty mapping
MetadataEmpty == Done /\ calls.metadata = 1 /\ DOMAIN metadata_map = {}

\* C8 as stated: an empty candidate list at the discovery stage or an empty
\* metadata mapping gives the zeroed Scan Result, with analyze_token and the
\* pacing delay never invoked.
C8_EmptyShortCircuits_AsStated ==
    (DiscoveryEmpty \/ MetadataEmpty) =>
        /\ ZeroedResult
        /\ calls.analyze = 0
        /\ calls.sleep = 0

\* C8 amended: both give the zeroed Scan Result; with an empty discovery
\* analyze_token and the pacing delay are never invoked, and with an empty
\* metadata mapping they are invoked once per mint, every call returning no
\* record.
C8_EmptyShortCircuits ==
    /\ DiscoveryEmpty =>
         /\ ZeroedResult
         /\ calls.analyze = 0
         /\ calls.sleep = 0
    /\ MetadataEmpty =>
         /\ ZeroedResult
         /\ calls.analyze = Len(mints)
         /\ calls.sleep = Len(mints)
         /\ \A i \in DOMAIN enriched : enriched[i].out = None

\* the fallback found transactions but no mint in them
C8_WitnessDiscovery ==
    /\ DiscoveryEmpty
    /\ calls.extract = 1
    /\ transactions # <<>>

\* an empty mapping for two mints
C8_Witness ==
    /\ MetadataEmpty
    /\ Len(mints) = 2
    /\ calls.analyze = 2

====
